---- MODULE Spec2Model ----
(***************************************************************************)
(* Byte-level model of the PS2 HDD tools: the APA partition-table parser   *)
(* and PFS reader (ps2_hdd_reader.py), the formatter                       *)
(* (ps2_hdd_formatter.py) and the file writer (ps2_hdd_writer.py).         *)
(*                                                                         *)
(* A Python bytes value is a sequence of integers 0..255.  The device is a *)
(* sequence of sectors; sector n of the device is dev[n+1].  A stored      *)
(* sector is kept without its trailing zero bytes (a representation only:  *)
(* read_sector gives the 512 bytes back, and a read past the end of the    *)
(* device gives the empty bytes value, as file.read does).                 *)
(* A text (file or partition name) is the sequence of its code points.     *)
(***************************************************************************)
EXTENDS Integers, Sequences, FiniteSets, TLC

VARIABLES dev, op, parts, res, nwrites, nreads

vars == <<dev, op, parts, res, nwrites, nreads>>

(***************************************************************************)
(* Bounds of the model.                                                    *)
(***************************************************************************)
TotalSectors == 256   \* sectors of the modelled device
WideSectors == 1100   \* sectors of the device that is longer than one search window
MaxWrites == 2        \* format / write_file calls in one behaviour
MaxReads == 2         \* consecutive read-only calls between two writes

(***************************************************************************)
(* Program constants.                                                      *)
(***************************************************************************)
SECTOR_SIZE == 512
APA_MAGIC == <<65, 80, 65>>          \* b'APA'
PFS_MAGIC == <<80, 70, 83, 32>>      \* b'PFS '
SearchWindow == 1000                 \* find_free_block: start_from + 1000
InodeCeiling == 1000                 \* write_file_to_ps2: inode_num > 1000
FirstDataSector == 10                \* start_block = 10
FirstInode == 3                      \* inode_num = 3
RootInode == 2                       \* add_directory_entry(..., 2, ...)
DirPartitionSize == 1000000          \* add_directory_entry: find_free_block(.., 1000000, 10)
ReservedSectors == 100               \* format_ps2_hdd: total - start - 100
SanityLimit == 1000000               \* parse_mbr: start < 1000000 (verbose trace)

(***************************************************************************)
(* Python bytes / struct helpers.                                          *)
(***************************************************************************)
Min(a, b) == IF a < b THEN a ELSE b

\* F applied to the value of v: v is evaluated once, as an assignment
\* statement evaluates its right-hand side
Bind(v, F(_)) == CHOOSE r \in {F(x) : x \in {v}} : TRUE

\* n <= SECTOR_SIZE zero bytes
ZeroSector == SubSeq([i \in 1..SECTOR_SIZE |-> 0], 1, SECTOR_SIZE)
Zeros(n) == SubSeq(ZeroSector, 1, n)

\* s[a:b] for 0 <= a <= b: clipped to the length of s, never an error
Slice(s, a, b) == SubSeq(s, a + 1, Min(b, Len(s)))

\* struct.unpack('<I', s[off:off+4])[0]
U32(s, off) == s[off + 1] + 256 * s[off + 2] + 65536 * s[off + 3] + 16777216 * s[off + 4]

\* struct.pack('<I', v)
Pack32(v) == << v % 256, (v \div 256) % 256, (v \div 65536) % 256, (v \div 16777216) % 256 >>

\* buf[off:off+len(bs)] = bs, and struct.pack_into: bs lies inside buf
Put(buf, off, bs) ==
    SubSeq(buf, 1, off) \o bs \o SubSeq(buf, off + Len(bs) + 1, Len(buf))

\* the number of bytes left once the trailing zero bytes are dropped
StrippedLen(s) ==
    CHOOSE n \in 0..Len(s) : /\ n = 0 \/ s[n] # 0
                             /\ \A j \in (n + 1)..Len(s) : s[j] = 0

\* bytes.rstrip(b'\x00')
RStrip0(s) == SubSeq(s, 1, StrippedLen(s))

\* bytes.decode('ascii', errors='ignore') and str.encode('ascii', errors='ignore')
IsAscii(b) == b < 128
DecodeAscii(s) == SelectSeq(s, IsAscii)
EncodeAscii(t) == SelectSeq(t, IsAscii)

\* bytes.ljust(n, b'\x00')
LJust(s, n) == IF Len(s) >= n THEN s ELSE s \o Zeros(n - Len(s))

(***************************************************************************)
(* Sector I/O.                                                             *)
(***************************************************************************)
read_sector(d, sector) ==
    IF sector >= 0 /\ sector < Len(d) THEN LJust(d[sector + 1], SECTOR_SIZE) ELSE <<>>

\* data is exactly SECTOR_SIZE bytes (the callers below establish it)
write_sector(d, sector, data) == [d EXCEPT ![sector + 1] = RStrip0(data)]

(***************************************************************************)
(* Formatter: sector builders.                                             *)
(***************************************************************************)
\* total_sectors - 1 stays below 0xFFFFFFFF for every modelled device
create_apa_mbr(total_sectors) ==
    LET m0 == Zeros(SECTOR_SIZE)
        m1 == Put(m0, 432, APA_MAGIC)                       \* 0x1B0
        m2 == Put(m1, 435, <<1>>)                           \* 0x1B3 version
        m3 == Put(m2, 436, Pack32(total_sectors) \o Zeros(4)) \* 0x1B4 '<Q'
        m4 == Put(m3, 444, <<0, 0>>)                        \* 0x1BC checksum
        m5 == Put(m4, 446, <<128>>)                         \* 0x1BE boot flag 0x80
        m6 == Put(m5, 447, <<0, 1, 1>>)                     \* 0x1BF CHS start
        m7 == Put(m6, 450, <<1>>)                           \* 0x1C2 partition type
        m8 == Put(m7, 451, <<255, 254, 255>>)               \* 0x1C3 CHS end
        m9 == Put(m8, 454, Pack32(1))                       \* 0x1C6 start sector
        num_sectors == IF total_sectors - 1 < 0 THEN 0 ELSE total_sectors - 1
        m10 == Put(m9, 458, Pack32(num_sectors))            \* 0x1CA
    IN  Put(m10, 510, <<85, 170>>)                          \* 0x1FE 55 AA

NameOffsetWritten == 20   \* name_offset = 0x14

create_apa_partition_header(partition_name, start_sector, num_sectors, pfs_type, now) ==
    LET h0 == Put(Zeros(SECTOR_SIZE), 0, APA_MAGIC)
        h1 == Put(h0, 4, Pack32(pfs_type))
        h2 == Put(h1, 8, Pack32(1))
        h3 == Put(h2, 12, Pack32(start_sector))
        h4 == Put(h3, 16, Pack32(num_sectors))
        name_bytes == Slice(EncodeAscii(partition_name), 0, 31)
        h5 == Put(h4, NameOffsetWritten, LJust(name_bytes, 32))
        h6 == Put(h5, 48, Pack32(now))                      \* 0x30
    IN  Put(h6, 52, Pack32(now))                            \* 0x34

create_pfs_superblock(root_inode) ==
    LET s0 == Put(Zeros(SECTOR_SIZE), 0, PFS_MAGIC)
        s1 == Put(s0, 4, Pack32(1))
    IN  Put(s1, 16, Pack32(root_inode))

(***************************************************************************)
(* Partition table parser.                                                 *)
(***************************************************************************)
\* (mutant) the list of the previous call is kept
PreviousPartitions == parts

NoPartitions == <<>>     \* partitions = []

NameOffsetRead == 16     \* part_header[0x10:0x30]

\* (mutant) the first byte of the slot decides
slot_in_use_first(entry) == entry[1] # 0

\* entry[4] == 0 is an empty slot
slot_in_use(entry) == entry[5] # 0

\* the body of the loop over the four table slots: the list after slot i
parse_slot(d, mbr, i, partitions) ==
    LET entry == Slice(mbr, 446 + i * 16, 446 + i * 16 + 16)
        start_sector == U32(entry, 8)
        num_sectors == U32(entry, 12)
        part_header == read_sector(d, start_sector)
    IN  IF ~slot_in_use(entry) THEN partitions
        ELSE IF start_sector = 0 \/ num_sectors = 0 THEN partitions
        ELSE IF Slice(part_header, 0, 3) # APA_MAGIC THEN partitions
        ELSE Append(partitions,
                    [sector |-> start_sector,
                     size |-> num_sectors,
                     name |-> DecodeAscii(RStrip0(Slice(part_header, NameOffsetRead, 48))),
                     pfs_type |-> U32(part_header, 4)])

RECURSIVE parse_slots(_, _, _, _)
parse_slots(d, mbr, i, partitions) ==
    IF i = 4 THEN partitions
    ELSE parse_slots(d, mbr, i + 1, parse_slot(d, mbr, i, partitions))

\* (mutant) the boot signature 55 AA is taken for the table magic
HasBootSignature(mbr) == Slice(mbr, 510, 512) = <<85, 170>>

HasTableMagic(mbr) == Slice(mbr, 432, 435) = APA_MAGIC

\* one printed line: what it reports and the values it shows
Line(text, args) == [text |-> text, args |-> args]

\* the standard-table part of the verbose trace, for slot i
diagnose_slot(d, mbr, i) ==
    LET entry_offset == 446 + i * 16
        entry == Slice(mbr, entry_offset, entry_offset + 16)
        start == U32(entry, 8)
        size == U32(entry, 12)
        part_header == read_sector(d, start)
    IN  IF entry_offset + 16 > Len(mbr) THEN <<>>
        ELSE IF entry[5] = 0 THEN <<>>
        ELSE <<Line("partition", <<i, start, size>>)>> \o
             (IF ~(start > 0 /\ start < SanityLimit) THEN <<>>
              ELSE IF Slice(part_header, 0, 3) = APA_MAGIC THEN <<Line("apa_header", <<i>>)>>
              ELSE IF Slice(part_header, 0, 4) = PFS_MAGIC THEN <<Line("pfs_signature", <<i>>)>>
              ELSE <<Line("preview", Slice(part_header, 0, 64))>>)

\* the magic looked for at other offsets of the sector (0x1B0 is known to fail)
diagnose_magic(mbr) ==
    IF Len(mbr) > 0 /\ Slice(mbr, 0, 3) = APA_MAGIC THEN <<Line("magic_at", <<0>>)>> ELSE <<>>

\* the hex dump of mbr[0x1B0 - 32 : 0x1B0 + 32], 16 bytes a row
RECURSIVE diagnose_hex(_, _)
diagnose_hex(mbr, i) ==
    IF i >= Min(Len(mbr), 432 + 32) THEN <<>>
    ELSE <<Line("hex", Slice(mbr, i, i + 16))>> \o diagnose_hex(mbr, i + 16)

\* (mutant) the verbose decode adds the partitions it finds to the result
diagnose_collect(d, mbr, partitions) ==
    [partitions |-> parse_slots(d, mbr, 0, partitions),
     out |-> <<Line("checking", <<>>)>>]

\* the verbose branch taken when the magic is absent: what is printed, and
\* the list the function goes on to return
diagnose(d, mbr, partitions) ==
    [partitions |-> partitions,
     out |-> <<Line("checking", <<>>)>> \o diagnose_magic(mbr)
             \o diagnose_slot(d, mbr, 0) \o diagnose_slot(d, mbr, 1)
             \o diagnose_slot(d, mbr, 2) \o diagnose_slot(d, mbr, 3)
             \o diagnose_hex(mbr, 432 - 32)]

\* parse_mbr(verbose): the list returned and the lines printed
parse_mbr_verbose(d, verbose) ==
    LET mbr == read_sector(d, 0)
    IN  IF ~HasTableMagic(mbr)
        THEN IF verbose THEN diagnose(d, mbr, NoPartitions)
             ELSE [partitions |-> NoPartitions, out |-> <<Line("warning", <<>>)>>]
        ELSE [partitions |-> parse_slots(d, mbr, 0, NoPartitions), out |-> <<>>]

\* parse_mbr(): verbose defaults to False
parse_mbr(d) == parse_mbr_verbose(d, FALSE).partitions

(***************************************************************************)
(* Formatter.  total_sectors is the size diskutil reports for the device,  *)
(* i.e. the number of sectors of d.  A negative partition size makes       *)
(* struct.pack_into raise after the MBR has been written.                  *)
(***************************************************************************)
RECURSIVE zero_sectors(_, _, _, _)
zero_sectors(d, partition_start, i, last) ==
    IF i >= last THEN d
    ELSE zero_sectors(write_sector(d, partition_start + i, Zeros(SECTOR_SIZE)),
                      partition_start, i + 1, last)

format_ps2_hdd(d, partition_name, now) ==
    LET total_sectors == Len(d)
        d1 == write_sector(d, 0, create_apa_mbr(total_sectors))
        partition_start == 1
        partition_size == total_sectors - partition_start - ReservedSectors
        d2 == write_sector(d1, partition_start,
                  create_apa_partition_header(partition_name, partition_start,
                                              partition_size, 1, now))
        d3 == write_sector(d2, partition_start + 1, create_pfs_superblock(RootInode))
    IN  IF total_sectors = 0 THEN [status |-> "NoSize", d |-> d]
        ELSE IF partition_size < 0 THEN [status |-> "Exception", d |-> d1]
        ELSE [status |-> "ok",
              d |-> zero_sectors(d3, partition_start, 2, Min(FirstDataSector, partition_size))]

(***************************************************************************)
(* Block allocator and inode scan.  None is -1.                            *)
(***************************************************************************)
None == 0 - 1

IsFreeSector(data) ==
    \/ data = Zeros(SECTOR_SIZE)
    \/ Slice(data, 0, 4) = Zeros(4)

\* (mutant) the window is twice as long
find_free_block_wide(d, partition_start, partition_size, start_from) ==
    LET last == Min(start_from + 2 * SearchWindow, partition_size) - 1
        Free(s) == IsFreeSector(read_sector(d, partition_start + s))
    IN  IF \A s \in start_from..last : ~Free(s) THEN None
        ELSE CHOOSE s \in start_from..last :
                 Free(s) /\ \A t \in start_from..(s - 1) : ~Free(t)

\* the first sector of the window that reads as free
find_free_block(d, partition_start, partition_size, start_from) ==
    LET last == Min(start_from + SearchWindow, partition_size) - 1
        Free(s) == IsFreeSector(read_sector(d, partition_start + s))
    IN  IF \A s \in start_from..last : ~Free(s) THEN None
        ELSE CHOOSE s \in start_from..last :
                 Free(s) /\ \A t \in start_from..(s - 1) : ~Free(t)

allocate_inode(d, partition_start, inode_num) ==
    LET sector_data == read_sector(d, partition_start + 2 + (inode_num \div 4))
        inode_offset == (inode_num % 4) * 128
    IN  Slice(sector_data, inode_offset, inode_offset + 4) = Zeros(4)

\* (mutant) a request that finds no block ends the loop without failing
RECURSIVE allocate_blocks_lenient(_, _, _, _, _, _)
allocate_blocks_lenient(d, partition_start, partition_size, num_blocks, start_block, file_blocks) ==
    IF Len(file_blocks) = num_blocks THEN [ok |-> TRUE, blocks |-> file_blocks]
    ELSE Bind(find_free_block(d, partition_start, partition_size, start_block),
              LAMBDA block :
                  IF block = None THEN [ok |-> TRUE, blocks |-> file_blocks]
                  ELSE allocate_blocks_lenient(d, partition_start, partition_size, num_blocks,
                                               block + 1, Append(file_blocks, block)))

\* blocks granted so far, in order; ok is FALSE when a request found none
RECURSIVE allocate_blocks(_, _, _, _, _, _)
allocate_blocks(d, partition_start, partition_size, num_blocks, start_block, file_blocks) ==
    IF Len(file_blocks) = num_blocks THEN [ok |-> TRUE, blocks |-> file_blocks]
    ELSE Bind(find_free_block(d, partition_start, partition_size, start_block),
              LAMBDA block :
                  IF block = None THEN [ok |-> FALSE, blocks |-> file_blocks]
                  ELSE allocate_blocks(d, partition_start, partition_size, num_blocks,
                                       block + 1, Append(file_blocks, block)))

\* (mutant) the scan starts one inode too far
scan_inodes_skip(d, partition_start) ==
    LET Free(n) == allocate_inode(d, partition_start, n)
    IN  IF \A n \in (FirstInode + 1)..InodeCeiling : ~Free(n) THEN None
        ELSE CHOOSE n \in (FirstInode + 1)..InodeCeiling :
                 Free(n) /\ \A m \in (FirstInode + 1)..(n - 1) : ~Free(m)

\* the while loop of lines 323-328: the inode number chosen, or None
scan_inodes(d, partition_start) ==
    LET Free(n) == allocate_inode(d, partition_start, n)
    IN  IF \A n \in FirstInode..InodeCeiling : ~Free(n) THEN None
        ELSE CHOOSE n \in FirstInode..InodeCeiling :
                 Free(n) /\ \A m \in FirstInode..(n - 1) : ~Free(m)

\* (mutant) the division truncates
NumBlocksFloor(file_size) == file_size \div SECTOR_SIZE

NumBlocks(file_size) == (file_size + SECTOR_SIZE - 1) \div SECTOR_SIZE

(***************************************************************************)
(* Inode and directory writers.  A written-sector log entry records the    *)
(* absolute sector, the step that wrote it and the bytes written.          *)
(***************************************************************************)
LogEntry(sector, kind, data) == [sector |-> sector, kind |-> kind, bytes |-> RStrip0(data)]

RECURSIVE pack_blocks(_, _, _)
pack_blocks(inode, blocks, i) ==
    IF i > Len(blocks) \/ i > 8 THEN inode
    ELSE pack_blocks(Put(inode, 8 + (i - 1) * 4, Pack32(blocks[i])), blocks, i + 1)

create_inode(inode_num, filename, size, blocks, is_dir, now) ==
    LET mode == IF is_dir THEN 16895 ELSE 511          \* 0x1FF | 0x4000
        i0 == Put(Zeros(128), 0, Pack32(mode))
        i1 == Put(i0, 4, Pack32(size))
        i2 == pack_blocks(i1, blocks, 1)
        name_bytes == Slice(EncodeAscii(filename), 0, 31)
        i3 == Put(i2, 32, name_bytes)                  \* 0x20
        i4 == Put(i3, 64, Pack32(now))                 \* 0x40
    IN  Put(i4, 68, Pack32(now))                       \* 0x44

\* ok is FALSE when write_sector raises ValueError (the inode sector read short)
write_inode(d, log, partition_start, inode_num, inode_data, kind) ==
    LET inode_sector == partition_start + 2 + (inode_num \div 4)
        inode_offset == (inode_num % 4) * 128
    IN  Bind(read_sector(d, inode_sector), LAMBDA sector_data :
            IF Len(sector_data) # SECTOR_SIZE THEN [ok |-> FALSE, d |-> d, log |-> log]
            ELSE Bind(Put(sector_data, inode_offset, inode_data), LAMBDA new_data :
                     [ok |-> TRUE,
                      d |-> write_sector(d, inode_sector, new_data),
                      log |-> Append(log, LogEntry(inode_sector, kind, new_data))]))

DirSlots == {0, 64, 128, 192, 256, 320, 384, 448}      \* range(0, SECTOR_SIZE, 64)

\* the entry written into the first empty slot of the directory block; ok is
\* FALSE when the block is full (or read short)
write_entry(d, log, partition_start, dir_block, file_inode, filename) ==
    Bind(read_sector(d, partition_start + dir_block), LAMBDA dir_block_data :
        Bind({o \in DirSlots : Slice(dir_block_data, o, o + 4) = Zeros(4)}, LAMBDA empty :
            IF empty = {} THEN [ok |-> FALSE, d |-> d, log |-> log]
            ELSE LET entry_offset == CHOOSE o \in empty : \A q \in empty : o <= q
                     name_bytes == Slice(EncodeAscii(filename), 0, 31)
                     e1 == Put(dir_block_data, entry_offset, Pack32(file_inode))
                 IN  Bind(Put(e1, entry_offset + 4, name_bytes), LAMBDA e2 :
                         [ok |-> TRUE,
                          d |-> write_sector(d, partition_start + dir_block, e2),
                          log |-> Append(log, LogEntry(partition_start + dir_block,
                                                       "dirblock", e2))])))

\* ok is FALSE when the function raises
add_directory_entry(d, log, partition_start, dir_inode, file_inode, filename) ==
    LET dir_inode_offset == (dir_inode % 4) * 128
        Failed == [ok |-> FALSE, d |-> d, log |-> log]
    IN  Bind(read_sector(d, partition_start + 2 + (dir_inode \div 4)), LAMBDA dir_inode_data :
          IF Len(dir_inode_data) # SECTOR_SIZE THEN Failed
          ELSE IF U32(dir_inode_data, dir_inode_offset + 8) # 0
          THEN write_entry(d, log, partition_start,
                           U32(dir_inode_data, dir_inode_offset + 8), file_inode, filename)
          ELSE Bind(find_free_block(d, partition_start, DirPartitionSize, FirstDataSector),
                 LAMBDA dir_block :
                   IF dir_block = None THEN Failed
                   ELSE Bind(write_inode(d, log, partition_start, dir_inode,
                                 Put(Slice(dir_inode_data, dir_inode_offset,
                                           dir_inode_offset + 128), 8, Pack32(dir_block)),
                                 "dirinode"),
                          LAMBDA w :
                            IF ~w.ok THEN w
                            ELSE write_entry(w.d, w.log, partition_start, dir_block,
                                             file_inode, filename))))

(***************************************************************************)
(* Write orchestrator.                                                     *)
(***************************************************************************)
\* one data sector: the chunk of the file, zero-padded to a sector
block_data(file_data, i) ==
    LJust(Slice(file_data, i * SECTOR_SIZE, i * SECTOR_SIZE + SECTOR_SIZE), SECTOR_SIZE)

RECURSIVE write_blocks(_, _, _, _, _, _)
write_blocks(d, log, partition_start, file_blocks, file_data, i) ==
    IF i >= Len(file_blocks) THEN [d |-> d, log |-> log]
    ELSE LET sector == partition_start + file_blocks[i + 1]
             data == block_data(file_data, i)
         IN  write_blocks(write_sector(d, sector, data),
                          Append(log, LogEntry(sector, "data", data)),
                          partition_start, file_blocks, file_data, i + 1)

\* partitions[partition_index] with Python's indexing: -1 is the last element
PyIndexOk(seq, i) == i < Len(seq) /\ i >= 0 - Len(seq)
PyIndex(seq, i) == IF i >= 0 THEN seq[i + 1] ELSE seq[Len(seq) + i + 1]

Outcome(status, d, partition, blocks, inode, log) ==
    [status |-> status, d |-> d, pstart |-> partition.sector, psize |-> partition.size,
     blocks |-> blocks, inode |-> inode, log |-> log]

NoPartition == [sector |-> 0, size |-> 0]

\* (mutant) the data sectors reserved so far are written before the allocation
\* and the inode scan are known to succeed
write_to_partition_eager(d, partition, file_data, dest_path, now) ==
    LET partition_start == partition.sector
        file_size == Len(file_data)
    IN  Bind(allocate_blocks(d, partition_start, partition.size, NumBlocks(file_size),
                             FirstDataSector, <<>>), LAMBDA alloc :
          Bind(write_blocks(d, <<>>, partition_start, alloc.blocks, file_data, 0),
               LAMBDA wd :
            IF ~alloc.ok
            THEN Outcome("OutOfSpace", wd.d, partition, alloc.blocks, None, wd.log)
            ELSE Bind(scan_inodes(d, partition_start), LAMBDA inode_num :
              IF inode_num = None
              THEN Outcome("NoFreeInode", wd.d, partition, alloc.blocks, None, wd.log)
              ELSE Bind(write_inode(wd.d, wd.log, partition_start, inode_num,
                            create_inode(inode_num, dest_path, file_size, alloc.blocks,
                                         FALSE, now),
                            "inode"), LAMBDA wi :
                     IF ~wi.ok
                     THEN Outcome("Exception", wi.d, partition, alloc.blocks, inode_num,
                                  wi.log)
                     ELSE Bind(add_directory_entry(wi.d, wi.log, partition_start, RootInode,
                                                   inode_num, dest_path), LAMBDA we :
                            Outcome(IF we.ok THEN "ok" ELSE "Exception", we.d, partition,
                                    alloc.blocks, inode_num, we.log))))))

\* lines 308-359: the work done on the resolved partition
write_to_partition(d, partition, file_data, dest_path, now) ==
    LET partition_start == partition.sector
        file_size == Len(file_data)
    IN  Bind(allocate_blocks(d, partition_start, partition.size, NumBlocks(file_size),
                             FirstDataSector, <<>>), LAMBDA alloc :
          IF ~alloc.ok THEN Outcome("OutOfSpace", d, partition, alloc.blocks, None, <<>>)
          ELSE Bind(scan_inodes(d, partition_start), LAMBDA inode_num :
            IF inode_num = None
            THEN Outcome("NoFreeInode", d, partition, alloc.blocks, None, <<>>)
            ELSE Bind(write_blocks(d, <<>>, partition_start, alloc.blocks, file_data, 0),
                   LAMBDA wd :
              Bind(write_inode(wd.d, wd.log, partition_start, inode_num,
                       create_inode(inode_num, dest_path, file_size, alloc.blocks, FALSE, now),
                       "inode"), LAMBDA wi :
                IF ~wi.ok
                THEN Outcome("Exception", wi.d, partition, alloc.blocks, inode_num, wi.log)
                ELSE Bind(add_directory_entry(wi.d, wi.log, partition_start, RootInode,
                                              inode_num, dest_path), LAMBDA we :
                       Outcome(IF we.ok THEN "ok" ELSE "Exception", we.d, partition,
                               alloc.blocks, inode_num, we.log))))))

write_file_to_ps2(d, partition_index, file_data, dest_path, now) ==
    Bind(parse_mbr(d), LAMBDA partitions :
        IF partition_index >= Len(partitions)
        THEN Outcome("BadIndex", d, NoPartition, <<>>, None, <<>>)
        ELSE IF ~PyIndexOk(partitions, partition_index)
        THEN Outcome("Exception", d, NoPartition, <<>>, None, <<>>)
        ELSE write_to_partition(d, PyIndex(partitions, partition_index),
                                file_data, dest_path, now))

(***************************************************************************)
(* PFS reader.                                                             *)
(***************************************************************************)
\* parse_superblock: the root inode number, or None without the PFS magic
parse_superblock(d, partition) ==
    LET superblock == read_sector(d, partition.sector + 1)
    IN  IF Slice(superblock, 0, 4) # PFS_MAGIC THEN None ELSE U32(superblock, 16)

NoInode == [valid |-> FALSE]

RECURSIVE read_blocks(_, _, _)
read_blocks(inode_data, i, blocks) ==
    IF i >= 40 THEN blocks
    ELSE read_blocks(inode_data, i + 4,
                     IF U32(inode_data, i) # 0 THEN Append(blocks, U32(inode_data, i))
                     ELSE blocks)

read_inode(d, partition, inode_num) ==
    LET inode_sector == partition.sector + 2 + (inode_num \div 4)
        inode_offset == (inode_num % 4) * 128
        sector_data == read_sector(d, inode_sector)
        inode_data == Slice(sector_data, inode_offset, inode_offset + 128)
        mode == U32(inode_data, 0)
    IN  IF Len(inode_data) < 128 THEN NoInode
        ELSE [valid |-> TRUE,
              inode |-> inode_num,
              mode |-> mode,
              size |-> U32(inode_data, 4),
              name |-> DecodeAscii(RStrip0(Slice(inode_data, 32, 64))),
              blocks |-> read_blocks(inode_data, 8, <<>>),
              is_dir |-> (mode \div 16384) % 2 = 1]        \* mode & 0x4000

ListLimit == SECTOR_SIZE - 64     \* while offset < SECTOR_SIZE - 64

\* the entries of one directory block from offset on, appended to files;
\* ok is FALSE when struct.unpack raises on a block that read short
RECURSIVE list_block(_, _, _, _, _)
list_block(d, partition, blk, offset, files) ==
    IF offset >= ListLimit THEN [ok |-> TRUE, files |-> files]
    ELSE IF Len(blk) < offset + 4 THEN [ok |-> FALSE, files |-> files]
    ELSE IF U32(blk, offset) = 0 THEN [ok |-> TRUE, files |-> files]
    ELSE LET entry_name == DecodeAscii(RStrip0(Slice(blk, offset + 4, offset + 36)))
             entry_info == read_inode(d, partition, U32(blk, offset))
         IN  list_block(d, partition, blk, offset + 64,
                        IF entry_name # <<>> /\ entry_info.valid
                        THEN Append(files, entry_info) ELSE files)

RECURSIVE list_blocks(_, _, _, _, _)
list_blocks(d, partition, blocks, i, files) ==
    IF i > Len(blocks) THEN [ok |-> TRUE, files |-> files]
    ELSE LET r == list_block(d, partition,
                             read_sector(d, partition.sector + blocks[i]), 0, files)
         IN  IF ~r.ok THEN r ELSE list_blocks(d, partition, blocks, i + 1, r.files)

\* list_directory() on a new PFSParser: the root directory of the partition
list_directory(d, partition) ==
    LET root_inode == parse_superblock(d, partition)
        dir_inode == read_inode(d, partition, root_inode)
    IN  IF root_inode = None THEN [ok |-> TRUE, files |-> <<>>]
        ELSE IF ~dir_inode.valid THEN [ok |-> TRUE, files |-> <<>>]
        ELSE IF ~dir_inode.is_dir THEN [ok |-> TRUE, files |-> <<>>]
        ELSE list_blocks(d, partition, dir_inode.blocks, 1, <<>>)

\* the loop of extract_file: the bytes written to the output so far and the
\* sectors read, in order
RECURSIVE extract_blocks(_, _, _, _, _, _, _)
extract_blocks(d, partition, blocks, i, remaining, out, reads) ==
    IF i > Len(blocks) THEN [out |-> out, reads |-> reads]
    ELSE IF blocks[i] = 0 \/ remaining <= 0 THEN [out |-> out, reads |-> reads]
    ELSE LET data == read_sector(d, partition.sector + blocks[i])
             write_size == Min(SECTOR_SIZE, remaining)
         IN  extract_blocks(d, partition, blocks, i + 1, remaining - write_size,
                            out \o Slice(data, 0, write_size),
                            Append(reads, partition.sector + blocks[i]))

\* (mutant) the output file is opened before the directory test
extract_file_open_first(d, partition, inode) ==
    IF inode.is_dir THEN [ok |-> FALSE, created |-> TRUE, out |-> <<>>, reads |-> <<>>]
    ELSE LET r == extract_blocks(d, partition, inode.blocks, 1, inode.size, <<>>, <<>>)
         IN  [ok |-> TRUE, created |-> TRUE, out |-> r.out, reads |-> r.reads]

\* ok is the value returned; created tells whether open(output_path, 'wb') ran,
\* out is what was written to the file, reads the sectors read
extract_file(d, partition, inode) ==
    IF inode.is_dir THEN [ok |-> FALSE, created |-> FALSE, out |-> <<>>, reads |-> <<>>]
    ELSE LET r == extract_blocks(d, partition, inode.blocks, 1, inode.size, <<>>, <<>>)
         IN  [ok |-> TRUE, created |-> TRUE, out |-> r.out, reads |-> r.reads]

(***************************************************************************)
(* Inputs: clock values, names, file contents, and the device images a     *)
(* behaviour starts from.                                                  *)
(***************************************************************************)
Times == {1762300800}                       \* int(datetime.now().timestamp())

NameMbr == <<95, 95, 109, 98, 114>>         \* "__mbr", the formatter's default
NameGames == <<71, 65, 77, 69, 83>>         \* "GAMES"
NameA == <<65, 46, 73, 83, 79>>             \* "A.ISO"
NameB == <<66>>                             \* "B"
NameOld == <<79, 76, 68>>                   \* "OLD"

PartitionNames == {NameMbr, NameGames}

\* file contents: every sector of a file starts with four marker bytes and the
\* file ends with a non-zero byte, the bytes in between are zero
Marked(n) == SubSeq([i \in 1..n |-> IF (i - 1) % SECTOR_SIZE < 4 \/ i = n
                                    THEN 1 + ((i - 1) % 100) ELSE 0], 1, n)
Data1300 == Marked(1300)
Data3500 == Marked(3500)
Data4608 == Marked(4608)                    \* nine sectors: one more than an inode points to
DataZeroLead == Zeros(4) \o SubSeq([i \in 1..66 |-> 90], 1, 66)

FileData(id) ==
    CASE id = "empty" -> <<>>
      [] id = "small" -> <<104, 101, 108, 108, 111>>
      [] id = "s1300" -> Data1300
      [] id = "zlead" -> DataZeroLead
      [] id = "s3500" -> Data3500
      [] id = "s4608" -> Data4608

WriteInputs ==
    { [pidx |-> 0, data |-> "empty", name |-> NameA],
      [pidx |-> 0, data |-> "small", name |-> NameA],
      [pidx |-> 0, data |-> "small", name |-> NameB],
      [pidx |-> 0, data |-> "s1300", name |-> NameA],
      [pidx |-> 0, data |-> "zlead", name |-> NameA],
      [pidx |-> 0, data |-> "s3500", name |-> NameA],
      [pidx |-> 1, data |-> "small", name |-> NameB],
      [pidx |-> 0, data |-> "s4608", name |-> NameA],
      [pidx |-> 0 - 1, data |-> "s1300", name |-> NameB] }

StaleSector == <<0, 0, 0, 0, 83, 84, 65, 76, 69, 68, 65, 84, 65>>
GarbageSector == RStrip0(SubSeq([i \in 1..SECTOR_SIZE |->
                     IF (i - 1) % 64 = 0 THEN 219 ELSE IF (i - 1) % 64 = 1 THEN 65 ELSE 0],
                     1, SECTOR_SIZE))

Uniform(sector) == [s \in 1..TotalSectors |-> sector]

\* one 16-byte table slot
SlotBytes(flag, type, start, size) ==
    <<flag, 0, 1, 1, type, 255, 254, 255>> \o Pack32(start) \o Pack32(size)

Time0 == CHOOSE t \in Times : TRUE

\* a partition header and superblock at start
WithPartition(d, start, size, name) ==
    write_sector(write_sector(d, start,
                     create_apa_partition_header(name, start, size, 1, Time0)),
                 start + 1, create_pfs_superblock(RootInode))

\* a sector in use, as short as one can be
UsedSector == <<1>>

ImageBlank == Uniform(<<>>)
ImageStale == Uniform(StaleSector)
\* a formatted table and header, but no table magic; everything else in use
ImageNoMagic ==
    write_sector(WithPartition(Uniform(GarbageSector), 1, TotalSectors - 1, NameMbr),
                 0, Put(create_apa_mbr(TotalSectors), 432, <<0, 0, 0>>))
\* a formatted disk with every other sector in use
ImageFull ==
    write_sector(WithPartition(Uniform(GarbageSector), 1, TotalSectors - 1, NameMbr),
                 0, create_apa_mbr(TotalSectors))
\* the full disk with two free sectors in the data region
ImageNearlyFull ==
    write_sector(write_sector(ImageFull, 1 + 10, ZeroSector), 1 + 12, ZeroSector)
\* the full disk whose only inode slot with a zero mode is the last one scanned
ImageLastInode ==
    write_sector(ImageFull, 1 + 2 + (InodeCeiling \div 4),
                 Put(LJust(GarbageSector, SECTOR_SIZE), (InodeCeiling % 4) * 128, Zeros(4)))
\* four table slots: an active one, an inactive one of non-zero type, an
\* active one of type zero, and one whose start sector carries no header
ImageMulti ==
    LET mbr == Put(create_apa_mbr(TotalSectors), 446,
                   SlotBytes(128, 1, 1, 40) \o SlotBytes(0, 1, 41, 40)
                   \o SlotBytes(128, 0, 81, 20) \o SlotBytes(128, 1, 101, 10))
        d1 == WithPartition(ImageBlank, 1, 40, <<80, 48>>)
        d2 == WithPartition(d1, 41, 40, <<80, 49>>)
        d3 == WithPartition(d2, 81, 20, <<80, 50>>)
    IN  write_sector(d3, 0, mbr)
\* the four-slot table; the data region of the first partition, 40 sectors
\* long, is in use from its first to its last sector
ImageSmallFull ==
    SubSeq([s \in 1..TotalSectors |->
               IF s - 1 - 1 \in FirstDataSector..(40 - 1) THEN UsedSector ELSE ImageMulti[s]],
           1, TotalSectors)
\* a partition table and a partition header, but no superblock behind the header
ImageNoSuperblock ==
    write_sector(format_ps2_hdd(ImageBlank, NameMbr, Time0).d, 1 + 1, ZeroSector)
\* a formatted disk holding a root directory with one file
ImagePrepared ==
    LET d0 == format_ps2_hdd(ImageBlank, NameMbr, Time0).d
        root == create_inode(RootInode, <<>>, 0, <<10>>, TRUE, Time0)
        old == create_inode(3, NameOld, 3, <<11>>, FALSE, Time0)
        d1 == write_inode(d0, <<>>, 1, RootInode, root, "inode").d
        d2 == write_inode(d1, <<>>, 1, 3, old, "inode").d
        d3 == write_sector(d2, 1 + 10, LJust(Pack32(3) \o NameOld, SECTOR_SIZE))
    IN  write_sector(d3, 1 + 11, LJust(<<97, 98, 99>>, SECTOR_SIZE))

\* a freshly formatted disk that held other data before
ImageFormattedStale == format_ps2_hdd(ImageStale, NameMbr, Time0).d

\* a disk longer than one search window, every sector in use but two: the
\* first sector past the window that starts at the low-water mark, and a later one
ImageWide ==
    LET d0 == [s \in 1..WideSectors |-> UsedSector]
        d1 == WithPartition(d0, 1, WideSectors - 1, NameMbr)
        d2 == write_sector(d1, 0, create_apa_mbr(WideSectors))
        d3 == write_sector(d2, 1 + FirstDataSector + SearchWindow, ZeroSector)
    IN  write_sector(d3, 1 + FirstDataSector + SearchWindow + 40, ZeroSector)

\* a formatted disk whose root inode is a directory with one, still empty, block
ImageRootOnly ==
    LET d0 == format_ps2_hdd(ImageBlank, NameMbr, Time0).d
        root == create_inode(RootInode, <<>>, 0, <<FirstDataSector>>, TRUE, Time0)
    IN  write_inode(d0, <<>>, 1, RootInode, root, "inode").d

EntryName(i) == <<70, 48 + i>>              \* "F1", "F2", ...

\* d with one more file: inode n, its record built by create_inode, entered in
\* the root directory by add_directory_entry
WithFile(d, n, inode_name, entry_name, size, blocks) ==
    Bind(write_inode(d, <<>>, 1, n, create_inode(n, inode_name, size, blocks, FALSE, Time0),
                     "inode").d,
         LAMBDA d1 : add_directory_entry(d1, <<>>, 1, RootInode, n, entry_name).d)

\* the root directory with k files, inodes 3 .. k + 2, in slots 0 .. k - 1
RECURSIVE DirImage(_)
DirImage(k) ==
    IF k = 0 THEN ImageRootOnly
    ELSE Bind(DirImage(k - 1), LAMBDA d0 :
           Bind(write_sector(d0, 1 + FirstDataSector + k, LJust(<<100 + k>>, SECTOR_SIZE)),
                LAMBDA d1 : WithFile(d1, RootInode + k, EntryName(k), EntryName(k), k,
                                     <<FirstDataSector + k>>)))

\* a sector of file content
ContentSector(b) == SubSeq([i \in 1..SECTOR_SIZE |-> b], 1, SECTOR_SIZE)

\* one file whose inode holds the block pointers 11, 0, 13
ImageHole ==
    LET d1 == write_sector(ImageRootOnly, 1 + 11, ContentSector(97))
        d2 == write_sector(d1, 1 + 12, ContentSector(98))
        d3 == write_sector(d2, 1 + 13, ContentSector(99))
    IN  WithFile(d3, 3, <<>>, <<72>>, 1300, <<11, 0, 13>>)

\* three directory entries; the inode of the second lies past the end of the device
ImageLostInode ==
    LET lost == 4 * TotalSectors
        d1 == DirImage(1)
        d2 == add_directory_entry(d1, <<>>, 1, RootInode, lost, <<76>>).d
    IN  WithFile(d2, 4, EntryName(2), EntryName(2), 2, <<FirstDataSector + 2>>)

\* the same, and a second directory block past the end of the device
ImageTruncDir ==
    LET root == create_inode(RootInode, <<>>, 0,
                             <<FirstDataSector, TotalSectors + FirstDataSector>>, TRUE, Time0)
    IN  write_inode(ImageLostInode, <<>>, 1, RootInode, root, "inode").d

ReadImages ==
    {ImageBlank, ImageNoMagic, ImageNearlyFull, ImageMulti, ImagePrepared,
     ImageFormattedStale, ImageWide, ImageHole, ImageLostInode, ImageTruncDir}
    \cup {DirImage(k) : k \in 0..Cardinality(DirSlots)}

Images == {ImageBlank, ImageStale, ImageNoMagic, ImageFull, ImageNearlyFull, ImageLastInode,
           ImageMulti, ImagePrepared, ImageSmallFull, ImageNoSuperblock}

(***************************************************************************)
(* State machine.  res holds the arguments and the outcome of the last     *)
(* format or write_file call, parts the list the last parse_mbr returned.  *)
(***************************************************************************)
NoCall ==
    [status |-> "none", pidx |-> 0, data |-> "empty", name |-> <<>>, pstart |-> 0,
     psize |-> 0, blocks |-> <<>>, inode |-> None, log |-> <<>>]

Init ==
    /\ dev \in Images
    /\ op = "init"
    /\ parts = <<>>
    /\ res = NoCall
    /\ nwrites = 0
    /\ nreads = 0

Format ==
    /\ nwrites < MaxWrites
    /\ \E partition_name \in PartitionNames, now \in Times :
          \E r \in {format_ps2_hdd(dev, partition_name, now)} :
              /\ dev' = r.d
              /\ res' = [NoCall EXCEPT !.status = r.status, !.name = partition_name]
    /\ op' = "format"
    /\ parts' = <<>>
    /\ nwrites' = nwrites + 1
    /\ nreads' = 0

WriteFile ==
    /\ nwrites < MaxWrites
    /\ \E inp \in WriteInputs, now \in Times :
          \E r \in {write_file_to_ps2(dev, inp.pidx, FileData(inp.data), inp.name, now)} :
              /\ dev' = r.d
              /\ res' = [status |-> r.status, pidx |-> inp.pidx, data |-> inp.data,
                         name |-> inp.name, pstart |-> r.pstart, psize |-> r.psize,
                         blocks |-> r.blocks, inode |-> r.inode, log |-> r.log]
    /\ op' = "write"
    /\ parts' = <<>>
    /\ nwrites' = nwrites + 1
    /\ nreads' = 0

Enumerate ==
    /\ nreads < MaxReads
    /\ parts' = parse_mbr(dev)
    /\ op' = "enumerate"
    /\ res' = NoCall
    /\ nreads' = nreads + 1
    /\ UNCHANGED <<dev, nwrites>>

Next == Format \/ WriteFile \/ Enumerate

Spec == Init /\ [][Next]_vars

(***************************************************************************)
(* Read-only calls on a device: the reader's commands and the allocator's  *)
(* search.  The device is any image a user may plug in; no call changes    *)
(* it.  op names the last call, res its arguments and what it returned.    *)
(***************************************************************************)
ReadInit ==
    /\ dev \in ReadImages
    /\ op = "init"
    /\ parts = <<>>
    /\ res = NoCall
    /\ nwrites = 0
    /\ nreads = 0

PartitionIndexes == 0..1
InodeNumbers == {2, 3, 4}
StartFroms == {10, 11, 13, 60, 250}

\* list-partitions and diagnose: parse_mbr(verbose)
EnumerateVerbose ==
    /\ \E verbose \in BOOLEAN :
          \E r \in {parse_mbr_verbose(dev, verbose)} :
              /\ parts' = r.partitions
              /\ res' = [verbose |-> verbose, out |-> r.out]
    /\ op' = "parse_mbr"
    /\ UNCHANGED <<dev, nwrites, nreads>>

\* list-files: PFSParser(reader, partitions[p]).list_directory()
ListFiles ==
    /\ \E pidx \in PartitionIndexes :
          \E partitions \in {parse_mbr(dev)} :
              /\ pidx < Len(partitions)
              /\ \E r \in {list_directory(dev, partitions[pidx + 1])} :
                    /\ parts' = partitions
                    /\ res' = [pidx |-> pidx,
                               pstart |-> partitions[pidx + 1].sector,
                               psize |-> partitions[pidx + 1].size,
                               raised |-> ~r.ok,
                               files |-> IF r.ok THEN r.files ELSE <<>>]
    /\ op' = "list_directory"
    /\ UNCHANGED <<dev, nwrites, nreads>>

\* extract: read_inode(n), then extract_file(inode, output_path)
ExtractFile ==
    /\ \E pidx \in PartitionIndexes, inode_num \in InodeNumbers :
          \E partitions \in {parse_mbr(dev)} :
              /\ pidx < Len(partitions)
              /\ \E inode \in {read_inode(dev, partitions[pidx + 1], inode_num)} :
                    /\ inode.valid
                    /\ \E r \in {extract_file(dev, partitions[pidx + 1], inode)} :
                          /\ parts' = partitions
                          /\ res' = [pidx |-> pidx,
                                     pstart |-> partitions[pidx + 1].sector,
                                     psize |-> partitions[pidx + 1].size,
                                     inode |-> inode,
                                     ok |-> r.ok, created |-> r.created,
                                     out |-> r.out, reads |-> r.reads]
    /\ op' = "extract_file"
    /\ UNCHANGED <<dev, nwrites, nreads>>

\* find_free_block(reader, partition.sector, size, start_from), with the
\* partition's size or the size add_directory_entry passes
FindFreeBlock ==
    /\ \E pidx \in PartitionIndexes, start_from \in StartFroms, whole \in BOOLEAN :
          \E partitions \in {parse_mbr(dev)} :
              /\ pidx < Len(partitions)
              /\ LET partition == partitions[pidx + 1]
                     size == IF whole THEN DirPartitionSize ELSE partition.size
                 IN  \E block \in {find_free_block(dev, partition.sector, size, start_from)} :
                         /\ parts' = partitions
                         /\ res' = [pidx |-> pidx, pstart |-> partition.sector,
                                    psize |-> size, start |-> start_from, block |-> block]
    /\ op' = "find_free_block"
    /\ UNCHANGED <<dev, nwrites, nreads>>

ReadNext == EnumerateVerbose \/ ListFiles \/ ExtractFile \/ FindFreeBlock

ReadSpec == ReadInit /\ [][ReadNext]_vars

(***************************************************************************)
(* Encoders against decoders: a header or an inode record is built by the  *)
(* formatter's / writer's encoder, put on a blank device, and read back by *)
(* the reader.  res holds the fields given to the encoder.                 *)
(***************************************************************************)
Name31 == SubSeq([i \in 1..31 |-> 64 + i], 1, 31)     \* 31 ASCII bytes "ABC..."

HeaderNames == {<<>>, NameMbr, NameGames, Name31}
HeaderStarts == {1, 7}
HeaderCounts == {128, 155, 1000000}
PfsTypes == {1, 2}

InodeNames == {<<>>, NameA, Name31}
InodeSizes == {5, 3500}
InodeBlocks == {<<>>, <<10>>, <<10, 11, 12, 13, 14, 15, 16>>,
                <<10, 11, 12, 13, 14, 15, 16, 17>>}
CodecInodes == {3, 6}

\* the partition the inode records are written to
CodecPartition == [sector |-> 1, size |-> TotalSectors - 1]

CodecInit ==
    /\ dev = ImageBlank
    /\ op = "init"
    /\ parts = <<>>
    /\ res = NoCall
    /\ nwrites = 0
    /\ nreads = 0

\* create_apa_partition_header, written at start on a fresh device whose
\* table points to it
EncodeHeader ==
    /\ \E name \in HeaderNames, pfs_type \in PfsTypes, start \in HeaderStarts,
          count \in HeaderCounts, now \in Times :
          /\ dev' = write_sector(
                        write_sector(ImageBlank, start,
                            create_apa_partition_header(name, start, count, pfs_type, now)),
                        0, Put(create_apa_mbr(TotalSectors), 446,
                               SlotBytes(128, 1, start, count)))
          /\ res' = [name |-> name, pfs_type |-> pfs_type, start |-> start, count |-> count]
    /\ op' = "encode_header"
    /\ parts' = <<>>
    /\ UNCHANGED <<nwrites, nreads>>

\* parse_mbr on the device that holds the header
DecodeHeader ==
    /\ op = "encode_header"
    /\ parts' = parse_mbr(dev)
    /\ op' = "decode_header"
    /\ UNCHANGED <<dev, res, nwrites, nreads>>

\* create_inode, written by write_inode on a fresh device
EncodeInode ==
    /\ \E inode_num \in CodecInodes, name \in InodeNames, size \in InodeSizes,
          blocks \in InodeBlocks, is_dir \in BOOLEAN, now \in Times :
          /\ dev' = write_inode(ImageBlank, <<>>, CodecPartition.sector, inode_num,
                                create_inode(inode_num, name, size, blocks, is_dir, now),
                                "inode").d
          /\ res' = [inode_num |-> inode_num, name |-> name, size |-> size,
                     blocks |-> blocks, is_dir |-> is_dir, decoded |-> NoInode]
    /\ op' = "encode_inode"
    /\ parts' = <<>>
    /\ UNCHANGED <<nwrites, nreads>>

\* read_inode on the device that holds the record
DecodeInode ==
    /\ op = "encode_inode"
    /\ res' = [res EXCEPT !.decoded = read_inode(dev, CodecPartition, res.inode_num)]
    /\ op' = "decode_inode"
    /\ UNCHANGED <<dev, parts, nwrites, nreads>>

CodecNext == EncodeHeader \/ DecodeHeader \/ EncodeInode \/ DecodeInode

CodecSpec == CodecInit /\ [][CodecNext]_vars

(***************************************************************************)
(* Actors on one device: the threads the desktop GUI starts (one transfer  *)
(* thread per add_files, with no lock) and the command-line processes.     *)
(* Each actor makes one engine call.  A call of the reader or of the       *)
(* formatter runs its with-block in one step; write_file_to_ps2 is cut     *)
(* where its thread can be descheduled between two phases of device I/O.   *)
(* Here res maps an actor to its call: pc is its position, handles the     *)
(* device objects it holds open, opened the ones it has opened so far,     *)
(* exc the exception type its last __exit__ received.                      *)
(***************************************************************************)
Actors == {1, 2}

NoException == "None"

\* open(self.device_path, mode): the errors the system can answer with
OpenErrors == {"none", "PermissionError"}

\* __enter__: the open device object is kept, or sys.exit(1) leaves the
\* with statement before its block is entered
__enter__(handles, device, error) ==
    IF error = "none" THEN [handles |-> handles \cup {device}, exc |-> NoException]
    ELSE [handles |-> handles, exc |-> "SystemExit"]

\* (mutant) the device is closed only when the block ended without an exception
exit_unless_raised(handles, device, exc_type) ==
    IF exc_type = NoException THEN handles \ {device} ELSE handles

\* __exit__: if self.device: self.device.close(), whatever ended the block
__exit__(handles, device, exc_type) == handles \ {device}

Ended(exc, status, files, outs) ==
    [exc |-> exc, status |-> status, files |-> files, outs |-> outs]

\* the with-block of the reader's main(): list-partitions, list-files, extract
reader_main(d, command, partition_index) ==
    Bind(parse_mbr(d), LAMBDA partitions :
      IF partitions = <<>> THEN Ended("SystemExit", "NoPartitions", <<>>, <<>>)
      ELSE IF command = "enumerate" THEN Ended(NoException, "ok", <<>>, <<>>)
      ELSE IF partition_index >= Len(partitions)
      THEN Ended("SystemExit", "BadIndex", <<>>, <<>>)
      ELSE IF ~PyIndexOk(partitions, partition_index)
      THEN Ended("Exception", "Exception", <<>>, <<>>)
      ELSE Bind(PyIndex(partitions, partition_index), LAMBDA selected_partition :
        IF parse_superblock(d, selected_partition) = None
        THEN Ended("SystemExit", "NoSuperblock", <<>>, <<>>)
        ELSE Bind(list_directory(d, selected_partition), LAMBDA listing :
          IF ~listing.ok THEN Ended("Exception", "Exception", <<>>, <<>>)
          ELSE IF command = "list" THEN Ended(NoException, "ok", listing.files, <<>>)
          ELSE Ended(NoException, "ok", listing.files,
                     [i \in 1..Len(listing.files) |->
                         IF listing.files[i].is_dir THEN <<>>
                         ELSE extract_file(d, selected_partition, listing.files[i]).out]))))

ActorCalls ==
    { [call |-> "write_file", pidx |-> 0, data |-> "small", name |-> NameA],
      [call |-> "write_file", pidx |-> 0, data |-> "s1300", name |-> NameB],
      [call |-> "write_file", pidx |-> 1, data |-> "small", name |-> NameB],
      [call |-> "write_file", pidx |-> 0 - 2, data |-> "small", name |-> NameB],
      [call |-> "enumerate", pidx |-> 0, data |-> "empty", name |-> <<>>],
      [call |-> "list", pidx |-> 0, data |-> "empty", name |-> <<>>],
      [call |-> "extract", pidx |-> 0, data |-> "empty", name |-> <<>>],
      [call |-> "format", pidx |-> 0, data |-> "empty", name |-> NameMbr] }

\* a blank device too short for the sectors the formatter reserves
ImageTiny == SubSeq(ImageBlank, 1, ReservedSectors)

ActorImages == {ImagePrepared, ImageNearlyFull, ImageTruncDir, ImageTiny}

NoActorCall ==
    [call |-> "none", pc |-> "idle", handles |-> {}, opened |-> <<>>, exc |-> NoException,
     status |-> "none", pidx |-> 0, data |-> "empty", name |-> <<>>, pstart |-> 0,
     psize |-> 0, blocks |-> <<>>, inode |-> None, log |-> <<>>, files |-> <<>>]

ActorInit ==
    /\ dev \in ActorImages
    /\ op = "init"
    /\ parts = <<>>
    /\ res = [a \in Actors |-> NoActorCall]
    /\ nwrites = 0
    /\ nreads = 0

\* the call is over: pc, status and the exception that ended it
Done(r, status, exc) == [r EXCEPT !.pc = "done", !.status = status, !.exc = exc]

\* the with statement leaves its block: __exit__ runs, then the call is over
Leave(r, device, status, exc) ==
    Done([r EXCEPT !.handles = __exit__(r.handles, device, exc)], status, exc)

\* with X(device_path) as x: the block is entered at pc next, unless open failed
Enter(r, device, error, next) ==
    Bind(__enter__(r.handles, device, error), LAMBDA e :
        IF e.exc # NoException THEN Done(r, "OpenFailed", e.exc)
        ELSE [r EXCEPT !.handles = e.handles, !.opened = Append(@, device), !.pc = next])

\* a GUI handler starts a thread, or a command-line process starts
StartCall(a) ==
    /\ res[a].pc = "idle"
    /\ \E c \in ActorCalls :
          res' = [res EXCEPT ![a] = [NoActorCall EXCEPT !.call = c.call, !.pidx = c.pidx,
                                         !.data = c.data, !.name = c.name, !.pc = "start"]]
    /\ op' = "start"
    /\ UNCHANGED <<dev, parts, nwrites, nreads>>

\* with PS2HDDReader(device_path) as reader:
OpenReader(a) ==
    /\ res[a].pc = "start"
    /\ res[a].call \in {"write_file", "enumerate", "list", "extract"}
    /\ \E error \in OpenErrors :
          res' = [res EXCEPT ![a] = Enter(@, "reader", error, "reading")]
    /\ op' = "open_reader"
    /\ UNCHANGED <<dev, parts, nwrites, nreads>>

\* the reader's command, to the end of its with-block
ReaderCommand(a) ==
    /\ res[a].pc = "reading"
    /\ res[a].call \in {"enumerate", "list", "extract"}
    /\ \E r \in {reader_main(dev, res[a].call, res[a].pidx)} :
          res' = [res EXCEPT ![a] = Leave([@ EXCEPT !.files = r.files, !.log = r.outs],
                                          "reader", r.status, r.exc)]
    /\ op' = "reader_main"
    /\ UNCHANGED <<dev, parts, nwrites, nreads>>

\* write_file_to_ps2, lines 295-305: the partition is looked up and the
\* reader's with-block is left
ResolvePartition(a) ==
    /\ res[a].pc = "reading"
    /\ res[a].call = "write_file"
    /\ \E partitions \in {parse_mbr(dev)} :
          res' = [res EXCEPT ![a] =
                    IF res[a].pidx >= Len(partitions)
                    THEN Leave(@, "reader", "BadIndex", NoException)
                    ELSE IF ~PyIndexOk(partitions, res[a].pidx)
                    THEN Leave(@, "reader", "Exception", "Exception")
                    ELSE [@ EXCEPT !.handles = __exit__(@, "reader", NoException),
                                   !.pstart = PyIndex(partitions, res[a].pidx).sector,
                                   !.psize = PyIndex(partitions, res[a].pidx).size,
                                   !.pc = "resolved"]]
    /\ op' = "resolve"
    /\ UNCHANGED <<dev, parts, nwrites, nreads>>

\* with PS2HDDWriter(device_path) as writer:
OpenWriter(a) ==
    /\ res[a].pc = "resolved"
    /\ \E error \in OpenErrors :
          res' = [res EXCEPT ![a] = Enter(@, "writer", error, "allocating")]
    /\ op' = "open_writer"
    /\ UNCHANGED <<dev, parts, nwrites, nreads>>

\* lines 312-328: the allocation loop and the inode scan
Allocate(a) ==
    /\ res[a].pc = "allocating"
    /\ \E alloc \in {allocate_blocks(dev, res[a].pstart, res[a].psize,
                                     NumBlocks(Len(FileData(res[a].data))),
                                     FirstDataSector, <<>>)} :
          \E inode_num \in {IF alloc.ok THEN scan_inodes(dev, res[a].pstart) ELSE None} :
              res' = [res EXCEPT ![a] =
                        IF ~alloc.ok
                        THEN Leave([@ EXCEPT !.blocks = alloc.blocks], "writer",
                                   "OutOfSpace", NoException)
                        ELSE IF inode_num = None
                        THEN Leave([@ EXCEPT !.blocks = alloc.blocks], "writer",
                                   "NoFreeInode", NoException)
                        ELSE [@ EXCEPT !.blocks = alloc.blocks, !.inode = inode_num,
                                       !.pc = "allocated"]]
    /\ op' = "allocate"
    /\ UNCHANGED <<dev, parts, nwrites, nreads>>

\* lines 334-339: the file's sectors are written to the granted blocks
WriteData(a) ==
    /\ res[a].pc = "allocated"
    /\ \E wd \in {write_blocks(dev, res[a].log, res[a].pstart, res[a].blocks,
                               FileData(res[a].data), 0)} :
          /\ dev' = wd.d
          /\ res' = [res EXCEPT ![a] = [@ EXCEPT !.log = wd.log, !.pc = "data_written"]]
    /\ op' = "write_data"
    /\ UNCHANGED <<parts, nwrites, nreads>>

\* lines 343-344: the inode record
WriteInode(a) ==
    /\ res[a].pc = "data_written"
    /\ \E now \in Times :
          \E wi \in {write_inode(dev, res[a].log, res[a].pstart, res[a].inode,
                                 create_inode(res[a].inode, res[a].name,
                                              Len(FileData(res[a].data)), res[a].blocks,
                                              FALSE, now),
                                 "inode")} :
              /\ dev' = wi.d
              /\ res' = [res EXCEPT ![a] =
                            IF ~wi.ok
                            THEN Leave([@ EXCEPT !.log = wi.log], "writer",
                                       "Exception", "Exception")
                            ELSE [@ EXCEPT !.log = wi.log, !.pc = "inode_written"]]
    /\ op' = "write_inode"
    /\ UNCHANGED <<parts, nwrites, nreads>>

\* lines 348-359: the directory entry, and the writer's with-block is left
AddEntry(a) ==
    /\ res[a].pc = "inode_written"
    /\ \E we \in {add_directory_entry(dev, res[a].log, res[a].pstart, RootInode,
                                      res[a].inode, res[a].name)} :
          /\ dev' = we.d
          /\ res' = [res EXCEPT ![a] =
                        Leave([@ EXCEPT !.log = we.log], "writer",
                              IF we.ok THEN "ok" ELSE "Exception",
                              IF we.ok THEN NoException ELSE "Exception")]
    /\ op' = "add_entry"
    /\ UNCHANGED <<parts, nwrites, nreads>>

\* format_ps2_hdd up to with PS2HDDFormatter(device_path) as formatter:
OpenFormatter(a) ==
    /\ res[a].pc = "start"
    /\ res[a].call = "format"
    /\ \E error \in OpenErrors :
          res' = [res EXCEPT ![a] =
                    IF Len(dev) = 0 THEN Done(@, "NoSize", NoException)
                    ELSE Enter(@, "formatter", error, "formatting")]
    /\ op' = "open_formatter"
    /\ UNCHANGED <<dev, parts, nwrites, nreads>>

\* the formatter's with-block
FormatDevice(a) ==
    /\ res[a].pc = "formatting"
    /\ \E now \in Times :
          \E r \in {format_ps2_hdd(dev, res[a].name, now)} :
              /\ dev' = r.d
              /\ res' = [res EXCEPT ![a] =
                            Leave(@, "formatter", r.status,
                                  IF r.status = "ok" THEN NoException ELSE "Exception")]
    /\ op' = "format_device"
    /\ UNCHANGED <<parts, nwrites, nreads>>

ActorNext ==
    \E a \in Actors :
        \/ StartCall(a)
        \/ OpenReader(a)
        \/ ReaderCommand(a)
        \/ ResolvePartition(a)
        \/ OpenWriter(a)
        \/ Allocate(a)
        \/ WriteData(a)
        \/ WriteInode(a)
        \/ AddEntry(a)
        \/ OpenFormatter(a)
        \/ FormatDevice(a)

ActorSpec == ActorInit /\ [][ActorNext]_vars

(***************************************************************************)
(* Claims.                                                                 *)
(***************************************************************************)
\* the partition the last write_file call resolved
WrittenPartition == [sector |-> res.pstart, size |-> res.psize]

WriteSucceeded == op = "write" /\ res.status = "ok"

\* ceil(n / 512), stated without the program's arithmetic
CeilSectors(n) == CHOOSE k \in 0..n : SECTOR_SIZE * k >= n /\ SECTOR_SIZE * (k - 1) < n

\* byte j of the i-th sector-sized piece of data, zero beyond its end
ChunkByte(data, i, j) ==
    IF SECTOR_SIZE * i + j < Len(data) THEN data[SECTOR_SIZE * i + j + 1] ELSE 0

\* C1: after write_file reports success, list_directory on the root directory
\* of that partition returns an entry whose name is the destination name,
\* whose size is the number of bytes written and whose direct blocks hold the
\* written content.
C1_WrittenFileIsListed ==
    WriteSucceeded =>
        LET data == FileData(res.data)
            listing == list_directory(dev, WrittenPartition)
        IN  /\ listing.ok
            /\ \E k \in 1..Len(listing.files) :
                  LET f == listing.files[k]
                  IN  /\ f.name = res.name
                      /\ f.size = Len(data)
                      /\ Len(f.blocks) >= CeilSectors(Len(data))
                      /\ \A i \in 0..(CeilSectors(Len(data)) - 1) :
                            LET sector == read_sector(dev, res.pstart + f.blocks[i + 1])
                            IN  /\ Len(sector) = SECTOR_SIZE
                                /\ \A j \in 0..(SECTOR_SIZE - 1) :
                                      sector[j + 1] = ChunkByte(data, i, j)

\* C2: for data of 1..4096 bytes and a non-empty ASCII name, after write_file
\* succeeds, read_inode of the new inode followed by extract_file yields
\* exactly the bytes written.
C2_WriteExtractRoundTrip ==
    (/\ WriteSucceeded
     /\ Len(FileData(res.data)) \in 1..4096
     /\ res.name # <<>>) =>
        LET inode == read_inode(dev, WrittenPartition, res.inode)
            extracted == extract_file(dev, WrittenPartition, inode)
        IN  /\ inode.valid
            /\ extracted.ok
            /\ extracted.out = FileData(res.data)

\* the entries of the last call's log that wrote file data
IsDataWrite(e) == e.kind = "data"
DataWrites == SelectSeq(res.log, IsDataWrite)

\* C3: a successful write_file of n bytes writes file data into exactly
\* ceil(n/512) distinct sectors, the reserved ones in order; the i-th receives
\* bytes [512*i, 512*i+512) of the source and zeros beyond the end of the data.
C3_DataSectorsWritten ==
    WriteSucceeded =>
        LET data == FileData(res.data)
            k == CeilSectors(Len(data))
        IN  /\ Len(DataWrites) = k
            /\ Len(res.blocks) = k
            /\ \A i \in 1..k : \A j \in 1..k : i < j => res.blocks[i] < res.blocks[j]
            /\ \A i \in 0..(k - 1) :
                  /\ DataWrites[i + 1].sector = res.pstart + res.blocks[i + 1]
                  /\ \A j \in 0..(SECTOR_SIZE - 1) :
                        LJust(DataWrites[i + 1].bytes, SECTOR_SIZE)[j + 1] = ChunkByte(data, i, j)

\* the 1300-byte file of the scenario was written into three sectors
C3_Witness ==
    WriteSucceeded /\ res.data = "s1300" /\ Len(DataWrites) = 3

\* the bytes of slot o of a directory block
SlotOf(block, o) == Slice(block, o, o + 64)

\* C4: a successful write_file changes exactly one 64-byte slot of the root
\* directory's first data block: the lowest slot whose inode number was zero
\* becomes {new inode number, destination name}, every other slot keeps the
\* bytes it had before the call.
C4_ExactlyOneEntryAdded ==
    [][(op' = "write" /\ res'.status = "ok") =>
          LET ps == res'.pstart
              root == read_sector(dev', ps + 2 + (RootInode \div 4))
              blk == U32(root, (RootInode % 4) * 128 + 8)
              before == read_sector(dev, ps + blk)
              after == read_sector(dev', ps + blk)
              empty == {o \in DirSlots : Slice(before, o, o + 4) = Zeros(4)}
          IN  /\ empty # {}
              /\ LET o == CHOOSE x \in empty : \A y \in empty : x <= y
                 IN  /\ SlotOf(after, o) = LJust(Pack32(res'.inode) \o res'.name, 64)
                     /\ \A q \in DirSlots \ {o} : SlotOf(after, q) = SlotOf(before, q)
      ]_vars

\* C5: after format_ps2_hdd succeeds, parse_mbr returns exactly one
\* partition, with start sector 1 and the configured partition name.
C5_FormatThenEnumerate ==
    (op = "format" /\ res.status = "ok") =>
        LET partitions == parse_mbr(dev)
        IN  /\ Len(partitions) = 1
            /\ partitions[1].sector = 1
            /\ partitions[1].name = res.name

\* the free sectors of the data region of a partition, as the allocator sees them
FreeDataSectors(d, partition_start, partition_size) ==
    {x \in FirstDataSector..(partition_size - 1) :
        IsFreeSector(read_sector(d, partition_start + x))}

\* the last call resolved a partition (a partition never starts at sector 0)
WriteResolved(r) == r.pstart > 0

\* C6: if the data region holds fewer free sectors than ceil(len/512), so that
\* the allocator cannot supply them, write_file fails with OutOfSpace and
\* every sector of the device is unchanged.
C6_OutOfSpaceLeavesDevice ==
    [][(/\ op' = "write"
        /\ WriteResolved(res')
        /\ Cardinality(FreeDataSectors(dev, res'.pstart, res'.psize))
               < CeilSectors(Len(FileData(res'.data))))
       => (res'.status = "OutOfSpace" /\ dev' = dev)
      ]_vars

\* a write ran out of space after the allocator had granted some sectors
C6_Witness ==
    op = "write" /\ res.status = "OutOfSpace" /\ Len(res.blocks) > 0

\* the mode field of inode n of the partition at ps reads as four zero bytes:
\* its sector is on the device and holds no non-zero byte at the four places
\* (a stored sector ends at its last non-zero byte)
ModeIsZero(d, ps, n) ==
    LET s == ps + 2 + (n \div 4)
    IN  /\ s >= 0 /\ s < Len(d)
        /\ \A b \in 1..4 :
              LET i == (n % 4) * 128 + b IN i > Len(d[s + 1]) \/ d[s + 1][i] = 0

\* C7: a write_file that got its data sectors takes as inode number the
\* smallest n in 3..1000 whose mode field is zero; when there is none it fails
\* with NoFreeInode and the device is unchanged.
C7_SmallestFreeInode ==
    [][(/\ op' = "write"
        /\ WriteResolved(res')
        /\ res'.status # "OutOfSpace")
       => IF res'.status = "NoFreeInode"
          THEN /\ \A n \in FirstInode..InodeCeiling : ~ModeIsZero(dev, res'.pstart, n)
               /\ dev' = dev
          ELSE /\ res'.inode \in FirstInode..InodeCeiling
               /\ ModeIsZero(dev, res'.pstart, res'.inode)
               /\ \A n \in FirstInode..(res'.inode - 1) : ~ModeIsZero(dev, res'.pstart, n)
      ]_vars

\* a write found no free inode
C7_Witness ==
    op = "write" /\ res.status = "NoFreeInode"

\* the table magic at byte 0x1B0 of sector 0
MagicAt1B0(d) ==
    /\ Len(d) > 0
    /\ Len(d[1]) >= 435
    /\ d[1][433] = 65 /\ d[1][434] = 80 /\ d[1][435] = 65

\* C8: on a device whose sector 0 lacks the table magic at 0x1B0, parse_mbr
\* returns the empty list, whatever else the device holds.
C8_NoMagicNoPartitions ==
    (op = "enumerate" /\ ~MagicAt1B0(dev)) => parts = <<>>

\* parse_mbr ran on a device without the magic whose sector 0 holds a table
\* slot in use and whose sector 1 holds a partition header
C8_Witness ==
    /\ op = "enumerate"
    /\ ~MagicAt1B0(dev)
    /\ Len(dev[1]) >= 462 /\ dev[1][451] # 0
    /\ Len(dev[2]) >= 3 /\ SubSeq(dev[2], 1, 3) = APA_MAGIC

SlotByte(d, i, f) == read_sector(d, 0)[446 + 16 * i + f + 1]
SlotStart(d, i) == U32(read_sector(d, 0), 446 + 16 * i + 8)
SlotCount(d, i) == U32(read_sector(d, 0), 446 + 16 * i + 12)

\* the slots that qualify when the byte at offset f of the slot decides use
QualifyingSlots(d, f) ==
    {i \in 0..3 : /\ SlotByte(d, i, f) # 0
                  /\ SlotStart(d, i) > 0
                  /\ SlotCount(d, i) > 0
                  /\ Slice(read_sector(d, SlotStart(d, i)), 0, 3) = APA_MAGIC}

\* list is one partition per slot of Q, in increasing slot order
ListsSlots(d, list, Q) ==
    /\ Len(list) = Cardinality(Q)
    /\ \A k \in 1..Len(list) :
          LET i == CHOOSE x \in Q : Cardinality({y \in Q : y < x}) = k - 1
          IN  list[k].sector = SlotStart(d, i) /\ list[k].size = SlotCount(d, i)

\* C10 (as claimed): with the table magic present, parse_mbr returns, in slot
\* order, one partition for each slot whose first byte (the active flag) is
\* non-zero, whose start and count are positive and whose header sector
\* starts with the magic, and nothing else.
C10_FirstFieldDecides ==
    (op = "enumerate" /\ MagicAt1B0(dev)) => ListsSlots(dev, parts, QualifyingSlots(dev, 0))

\* C10 (amended): the same with the slot's type byte (byte 4 of the slot) in
\* place of its first byte: a slot whose type byte is zero is skipped.
C10_TypeByteDecides ==
    (op = "enumerate" /\ MagicAt1B0(dev)) => ListsSlots(dev, parts, QualifyingSlots(dev, 4))

\* parse_mbr ran on a table where the two bytes disagree on some slot
C10_Witness ==
    /\ op = "enumerate"
    /\ MagicAt1B0(dev)
    /\ Len(parts) = 2
    /\ \E i \in 0..3 : SlotByte(dev, i, 0) = 0 /\ SlotByte(dev, i, 4) # 0
    /\ \E i \in 0..3 : SlotByte(dev, i, 0) # 0 /\ SlotByte(dev, i, 4) = 0

\* a line of the verbose trace reports a partition header at a table slot
TraceFoundHeader(out) == \E k \in 1..Len(out) : out[k].text = "apa_header"

\* C11: the verbose mode of parse_mbr does not change the list returned: the
\* list of a verbose call equals the list the non-verbose call returns on the
\* same device.
C11_VerboseSameList ==
    (op = "parse_mbr" /\ res.verbose) => parts = parse_mbr_verbose(dev, FALSE).partitions

\* a verbose call on a device without the magic, whose trace reports a table
\* slot in use with a partition header behind it
C11_Witness ==
    /\ op = "parse_mbr"
    /\ res.verbose
    /\ ~MagicAt1B0(dev)
    /\ TraceFoundHeader(res.out)
    /\ parts = <<>>

\* C12: the header sector built by create_apa_partition_header from a name of
\* at most 31 ASCII bytes and a pfs_type is decoded by parse_mbr to one
\* partition with that name and that pfs_type.
C12_HeaderRoundTrip ==
    op = "decode_header" =>
        /\ Len(parts) = 1
        /\ parts[1].name = res.name
        /\ parts[1].pfs_type = res.pfs_type

\* C13: the record built by create_inode is decoded by read_inode to the same
\* mode (directory bit), size, name and sequence of direct block pointers.
C13_InodeRoundTrip ==
    op = "decode_inode" =>
        /\ res.decoded.valid
        /\ res.decoded.is_dir = res.is_dir
        /\ res.decoded.size = res.size
        /\ res.decoded.name = res.name
        /\ res.decoded.blocks = res.blocks

\* C14: a sector find_free_block returns reads as 512 zero bytes.
C14_ReturnedSectorIsZero ==
    (op = "find_free_block" /\ res.block # None) =>
        \A j \in 1..SECTOR_SIZE : read_sector(dev, res.pstart + res.block)[j] = 0

\* sector s of the partition at ps reads whole and starts with four zero bytes
\* (a sector that is entirely zero does)
QualifiesAsFree(d, ps, s) ==
    LET data == read_sector(d, ps + s)
    IN  Len(data) = SECTOR_SIZE /\ \A j \in 1..4 : data[j] = 0

\* the sectors of [from, to) that qualify
QualifyingIn(d, ps, from, to) == {s \in from..(to - 1) : QualifiesAsFree(d, ps, s)}

\* C15: find_free_block returns the lowest qualifying sector of the window
\* [start, min(start + 1000, size)), and None exactly when the window holds none.
C15_LowestInWindow ==
    op = "find_free_block" =>
        LET W == QualifyingIn(dev, res.pstart, res.start, Min(res.start + 1000, res.psize))
        IN  IF W = {} THEN res.block = None
            ELSE res.block \in W /\ \A s \in W : res.block <= s

\* no sector was found although the partition holds a qualifying one past the window
C15_Witness ==
    /\ op = "find_free_block"
    /\ res.block = None
    /\ res.psize > res.start + 1000
    /\ QualifyingIn(dev, res.pstart, res.start + 1000, Min(res.psize, Len(dev))) # {}

\* the partition sectors of the superblock and of the inode records 3..1000
TableSectors == {1} \cup {2 + (n \div 4) : n \in FirstInode..InodeCeiling}

IsDirInodeWrite(e) == e.kind = "dirinode"
IsDirBlockWrite(e) == e.kind = "dirblock"

\* the partition sectors find_free_block granted to the last write_file call:
\* its data blocks, and the directory block when the call allocated one
Granted(r) ==
    {r.blocks[i] : i \in 1..Len(r.blocks)}
    \cup (IF SelectSeq(r.log, IsDirInodeWrite) = <<>> THEN {}
          ELSE LET w == SelectSeq(r.log, IsDirBlockWrite)
               IN  {w[i].sector - r.pstart : i \in 1..Len(w)})

\* C16: no sector granted to write_file holds the superblock or an inode
\* record the inode scan can select (3..1000, at partition sector 2 + n/4).
C16_GrantedOutsideTables ==
    (op = "write" /\ WriteResolved(res)) => Granted(res) \cap TableSectors = {}

\* the partition the last read-only call worked on
ReadPartition == [sector |-> res.pstart, size |-> res.psize]

\* the root directory of the partition, as read_inode decodes it
RootOf(d, partition) == read_inode(d, partition, parse_superblock(d, partition))

HasRootDir(d, partition) ==
    /\ parse_superblock(d, partition) # None
    /\ RootOf(d, partition).valid
    /\ RootOf(d, partition).is_dir

\* the inode number and the name bytes of slot j of a directory block
SlotInode(blk, j) == U32(blk, 64 * j)
SlotName(blk, j) == RStrip0(Slice(blk, 64 * j + 4, 64 * j + 36))

\* slots 0..k-1 of the block hold live entries and the other slots are empty
HoldsLiveEntries(d, partition, blk, k) ==
    /\ Len(blk) = SECTOR_SIZE
    /\ \A j \in 0..7 :
          IF j < k
          THEN /\ SlotInode(blk, j) # 0
               /\ SlotName(blk, j) # <<>>
               /\ read_inode(d, partition, SlotInode(blk, j)).valid
          ELSE SlotInode(blk, j) = 0

\* C17: for a root directory of one block whose slots 0..k-1 hold live
\* entries, 0 <= k <= 8, list_directory returns exactly k inodes, in slot order.
C17_ListsEverySlot ==
    op = "list_directory" =>
        LET partition == ReadPartition
        IN  (HasRootDir(dev, partition) /\ Len(RootOf(dev, partition).blocks) = 1) =>
                LET blk == read_sector(dev, partition.sector + RootOf(dev, partition).blocks[1])
                IN  \A k \in 0..8 :
                        HoldsLiveEntries(dev, partition, blk, k) =>
                            /\ ~res.raised
                            /\ Len(res.files) = k
                            /\ \A i \in 1..k : res.files[i].inode = SlotInode(blk, i - 1)

\* a directory block of the root reads short, or a named entry in front of
\* the first empty slot of a block points to an inode that cannot be read
DecodingFails(d, partition) ==
    \E i \in 1..Len(RootOf(d, partition).blocks) :
        LET blk == read_sector(d, partition.sector + RootOf(d, partition).blocks[i])
        IN  \/ Len(blk) < SECTOR_SIZE
            \/ \E j \in 0..7 :
                  /\ \A q \in 0..j : SlotInode(blk, q) # 0
                  /\ SlotName(blk, j) # <<>>
                  /\ ~read_inode(d, partition, SlotInode(blk, j)).valid

\* C18: when decoding fails partway through list_directory, the call returns
\* the empty list: no exception, no partial list.
C18_AllOrNothing ==
    (/\ op = "list_directory"
     /\ HasRootDir(dev, ReadPartition)
     /\ DecodingFails(dev, ReadPartition)) =>
        (~res.raised /\ res.files = <<>>)

\* the eight direct block pointers of inode n as they are stored
StoredPointers(d, ps, n) ==
    LET sector == read_sector(d, ps + 2 + (n \div 4))
    IN  [i \in 1..8 |-> U32(sector, (n % 4) * 128 + 8 + 4 * (i - 1))]

\* the number of stored pointers in front of the first zero pointer
PointersBeforeZero(ptrs) ==
    CHOOSE k \in 0..8 : /\ \A i \in 1..k : ptrs[i] # 0
                        /\ k = 8 \/ ptrs[k + 1] = 0

\* C19: extract_file on a file inode emits min(size, 512 * k) bytes, k the
\* number of stored pointers before the first zero pointer, and reads those
\* blocks in stored order and no other: a pointer stored after a zero pointer
\* is never read.
C19_StopsAtFirstZero ==
    (op = "extract_file" /\ ~res.inode.is_dir) =>
        LET ptrs == StoredPointers(dev, res.pstart, res.inode.inode)
            emitted == Min(res.inode.size, SECTOR_SIZE * PointersBeforeZero(ptrs))
        IN  /\ Len(res.out) = emitted
            /\ Len(res.reads) = CeilSectors(emitted)
            /\ \A i \in 1..Len(res.reads) : res.reads[i] = res.pstart + ptrs[i]

\* C20: extract_file on an inode whose mode has the directory bit set fails,
\* reads no sector and does not create the output file.
C20_DirectoryNotExtracted ==
    (op = "extract_file" /\ (res.inode.mode \div 16384) % 2 = 1) =>
        /\ ~res.ok
        /\ ~res.created
        /\ res.reads = <<>>
        /\ res.out = <<>>

\* extract_file was called on a directory inode that has a data block
C20_Witness ==
    /\ op = "extract_file"
    /\ (res.inode.mode \div 16384) % 2 = 1
    /\ res.inode.blocks # <<>>
    /\ ~res.ok

\* the device after the first k writes of a call's log
RECURSIVE Replay(_, _, _)
Replay(d, log, k) ==
    IF k = 0 THEN d
    ELSE Bind(Replay(d, log, k - 1),
              LAMBDA d0 : [d0 EXCEPT ![log[k].sector + 1] = log[k].bytes])

\* the place in the log of the write of the new inode record, 0 when the call
\* did not get that far
InodeWriteAt(log) ==
    IF \A k \in 1..Len(log) : log[k].kind # "inode" THEN 0
    ELSE CHOOSE k \in 1..Len(log) : log[k].kind = "inode"

\* the 128 bytes of inode record n of the partition at ps
InodeRecord(d, ps, n) ==
    Slice(read_sector(d, ps + 2 + (n \div 4)), (n % 4) * 128, (n % 4) * 128 + 128)

\* C21: in every write_file, at the moment the new file's inode record is
\* written the four mode bytes of that inode slot on the device are still
\* zero, and no inode record (3..1000) whose mode was non-zero before the call
\* has been altered by the call once the new record is in place (the writes of
\* lines 322-344: the data sectors and the new record).
C21_ModeStillZero ==
    [][(op' = "write" /\ InodeWriteAt(res'.log) > 0) =>
          LET ps == res'.pstart
              at == InodeWriteAt(res'.log)
              before == Replay(dev, res'.log, at - 1)
              after == Replay(dev, res'.log, at)
          IN  /\ ModeIsZero(before, ps, res'.inode)
              /\ \A n \in FirstInode..InodeCeiling :
                    (n # res'.inode /\ ~ModeIsZero(dev, ps, n)) =>
                        InodeRecord(after, ps, n) = InodeRecord(dev, ps, n)
      ]_vars


\* sector i of the file of call r holds the bytes of the file on device d
HoldsFileBytes(d, r, i) ==
    LET sector == read_sector(d, r.pstart + r.blocks[i + 1])
    IN  /\ Len(sector) = SECTOR_SIZE
        /\ \A j \in 0..(SECTOR_SIZE - 1) : sector[j + 1] = ChunkByte(FileData(r.data), i, j)

\* C22: when a step after the data write fails (the inode record, or the link
\* into the directory), write_file reports failure, the data sectors already
\* written keep the file's bytes, and nothing the call wrote is undone: the
\* device is the device before the call with the call's writes applied.
C22_NoRollback ==
    [][(/\ op' = "write"
        /\ WriteResolved(res')
        /\ res'.status \notin {"ok", "OutOfSpace", "NoFreeInode"})
       => /\ res'.status = "Exception"
          /\ Len(SelectSeq(res'.log, IsDataWrite)) = Len(res'.blocks)
          /\ \A i \in 0..(Len(res'.blocks) - 1) : HoldsFileBytes(dev', res', i)
          /\ dev' = Replay(dev, res'.log, Len(res'.log))
      ]_vars


\* the kinds of the writes of a log, in the order they were made
Kinds(log) == [k \in 1..Len(log) |-> log[k].kind]

\* n data writes, in order
DataKinds(n) == [k \in 1..n |-> "data"]

\* the orders of writes a call that reserved n data sectors may have made:
\* nothing, or the n data writes, then the inode record, then the link (the
\* root inode when the directory got its block, and the directory block)
LegalOrders(n) ==
    { <<>>,
      DataKinds(n),
      DataKinds(n) \o <<"inode">>,
      DataKinds(n) \o <<"inode", "dirinode">>,
      DataKinds(n) \o <<"inode", "dirblock">>,
      DataKinds(n) \o <<"inode", "dirinode", "dirblock">> }

\* C23: within one write_file no sector is written until all ceil(n/512) data
\* sectors are reserved and a free inode number is found; then every data
\* sector is written before the new inode record, and the inode record before
\* the directory entry that names it; a later step runs only if every earlier
\* step succeeded (the call succeeds exactly when the last step, the
\* directory block write, was made).
C23_WriteOrdering ==
    [][op' = "write" =>
          LET k == CeilSectors(Len(FileData(res'.data)))
              log == res'.log
          IN  /\ Kinds(log) \in LegalOrders(k)
              /\ log # <<>> => /\ Len(res'.blocks) = k
                               /\ res'.inode \in FirstInode..InodeCeiling
                               /\ ModeIsZero(dev, res'.pstart, res'.inode)
              /\ log = <<>> => dev' = dev
              /\ \A i \in 1..k : i <= Len(log) =>
                    log[i].sector = res'.pstart + res'.blocks[i]
              /\ \A i \in 1..Len(log) :
                    log[i].kind = "inode" =>
                        log[i].sector = res'.pstart + 2 + (res'.inode \div 4)
              /\ res'.status = "ok" <=> (log # <<>> /\ log[Len(log)].kind = "dirblock")
              /\ res'.status \in {"OutOfSpace", "NoFreeInode", "BadIndex"} => log = <<>>
      ]_vars

\* a call wrote three data sectors, the inode record, the root inode and the
\* directory block
C23_Witness ==
    /\ op = "write"
    /\ res.status = "ok"
    /\ Kinds(res.log) = <<"data", "data", "data", "inode", "dirinode", "dirblock">>


\* C25: no live data is overwritten: when write_file succeeds every data
\* sector of the file holds the file's bytes (also after the directory block
\* the same call allocated), and a write_file that follows a successful one on
\* the same partition leaves the data sectors of the earlier file as they were.
C25_NoLiveDataOverwritten ==
    [][op' = "write" =>
          /\ res'.status = "ok" =>
                \A i \in 0..(Len(res'.blocks) - 1) : HoldsFileBytes(dev', res', i)
          /\ (op = "write" /\ res.status = "ok" /\ res'.pstart = res.pstart) =>
                \A i \in 1..Len(res.blocks) :
                    read_sector(dev', res.pstart + res.blocks[i])
                        = read_sector(dev, res.pstart + res.blocks[i])
      ]_vars


\* the non-zero direct block pointers stored in inode n
RecordedPointers(d, ps, n) == {StoredPointers(d, ps, n)[i] : i \in 1..8} \ {0}

\* C26: whenever write_file reports success, every data sector it wrote is
\* referenced by a direct block pointer of the new inode, and the recorded
\* size does not exceed 512 times the number of recorded pointers: a source of
\* more than eight sectors is not reported as written with data unreferenced.
C26_AllDataReferenced ==
    WriteSucceeded =>
        LET recorded == RecordedPointers(dev, res.pstart, res.inode)
            size == U32(InodeRecord(dev, res.pstart, res.inode), 4)
        IN  /\ \A k \in 1..Len(DataWrites) :
                  DataWrites[k].sector - res.pstart \in recorded
            /\ size <= SECTOR_SIZE * Cardinality(recorded)


\* C27: every sector write_file writes as file data or as directory block lies
\* inside the selected partition: its offset from the partition's start is
\* below the partition's sector count, also when the partition is smaller than
\* the allocator's search window.
C27_WritesInsidePartition ==
    (op = "write" /\ WriteResolved(res)) =>
        \A k \in 1..Len(res.log) :
            res.log[k].kind \in {"data", "dirblock"} =>
                /\ res.log[k].sector - res.pstart >= 0
                /\ res.log[k].sector - res.pstart < res.psize


\* the sector after the partition header carries the filesystem magic
HasSuperblock(d, ps) ==
    LET sector == read_sector(d, ps + 1)
    IN  Len(sector) = SECTOR_SIZE /\ \A j \in 1..4 : sector[j] = PFS_MAGIC[j]

\* a slot of the first block of directory inode n starts with the entry
\* {inode, name}
LinkedIn(d, ps, n, inode, name) ==
    LET blk == U32(InodeRecord(d, ps, n), 8)
    IN  /\ blk # 0
        /\ \E o \in DirSlots :
              LET slot == SlotOf(read_sector(d, ps + blk), o)
              IN  /\ U32(slot, 0) = inode
                  /\ Slice(slot, 4, 4 + Len(name)) = name

\* C28: write_file on a partition whose superblock sector does not carry the
\* filesystem magic fails without modifying the device; when the superblock
\* is valid and the call succeeds, the new entry is in the directory whose
\* inode number the superblock names as root.
C28_SuperblockDecides ==
    [][(op' = "write" /\ WriteResolved(res')) =>
          IF ~HasSuperblock(dev, res'.pstart)
          THEN res'.status # "ok" /\ dev' = dev
          ELSE res'.status = "ok" =>
                  LinkedIn(dev', res'.pstart, U32(read_sector(dev, res'.pstart + 1), 16),
                           res'.inode, res'.name)
      ]_vars


\* C29: write_file with a partition index that is not in 0..n-1, n the number
\* of partitions parse_mbr returns (a negative index, or any index when
\* n = 0), fails and leaves every sector of the device unchanged.
C29_BadIndexRejected ==
    [][(op' = "write" /\ res'.pidx \notin 0..(Len(parse_mbr(dev)) - 1))
       => (res'.status # "ok" /\ dev' = dev)
      ]_vars


\* C24: once an engine call has ended - by a normal return, an early failure
\* return, sys.exit or an exception - the actor holds no device handle open
C24_HandlesClosed ==
    \A a \in Actors : res[a].pc \in {"idle", "done"} => res[a].handles = {}

\* one call ended by an exception and another by an early failure, each
\* after it had opened the device
C24_Witness ==
    \E a, b \in Actors :
        /\ res[a].pc = "done" /\ res[a].exc = "Exception" /\ res[a].opened # <<>>
        /\ res[b].pc = "done" /\ res[b].status \in {"BadIndex", "OutOfSpace", "NoPartitions"}
        /\ res[b].opened # <<>>

\* an actor between its allocation scan and its final directory write
InWriteSection(a) ==
    res[a].call = "write_file" /\ res[a].pc \in {"allocated", "data_written", "inode_written"}

\* an actor that has been granted blocks and an inode
HasGrant(a) == InWriteSection(a) \/ (res[a].call = "write_file" /\ res[a].status = "ok")

\* C30: two write_file calls on one partition are never both between the
\* allocation scan and the final directory write, and are never granted the
\* same sector or the same inode number
C30_OneWriterAtATime ==
    \A a, b \in Actors :
        (a # b /\ res[a].pstart = res[b].pstart)
        => /\ ~(InWriteSection(a) /\ InWriteSection(b))
           /\ (HasGrant(a) /\ HasGrant(b))
              => /\ res[a].inode # res[b].inode
                 /\ \A i \in 1..Len(res[a].blocks), j \in 1..Len(res[b].blocks) :
                        res[a].blocks[i] # res[b].blocks[j]

====
